---- MODULE Spec2Model ----
(***************************************************************************)
(* neocy: the Transaction protocol of src/index.js (QueryBuilder,          *)
(* Transaction.addQuery, Transaction.execute) as a state machine.          *)
(*                                                                         *)
(* A text is a sequence of one-character strings.  A JavaScript value that *)
(* can be thrown, resolved or rejected is a record [cls, msg]: cls is the  *)
(* class of the value and msg its message (a sequence of string tokens).   *)
(***************************************************************************)
EXTENDS Integers, Sequences, FiniteSets, TLC

\* ------------------------------------------------------------- bounds
MaxAdd == 2         \* addQuery calls that return, over all transactions
MaxExec == 2        \* execute() calls, over all transactions
MaxQ == 4           \* fragments one query builder accumulates
MaxItems == 2       \* elements of one Array handed to add()

\* ---------------------------------------------------- program constants
HTTP_OK == 200
HTTP_CREATED == 201

\* The Transaction objects a run may construct.
Tx == {1, 2}

\* The endpoint every Transaction of one Neo4j object is constructed with
\* (createTransaction), and the commit URL the server hands out.
transactionUrl == "/db/data/transaction"
commitUrl == "/db/data/transaction/7/commit"

\* ------------------------------------------------------- QueryBuilder
WS == {" ", "\t", "\n", "\r"}

\* this.q.join(' ')
RECURSIVE join(_)
join(qq) ==
  IF qq = <<>> THEN <<>>
  ELSE IF Len(qq) = 1 THEN qq[1]
  ELSE qq[1] \o <<" ">> \o join(Tail(qq))

\* length of the run of whitespace characters at the head of s
RECURSIVE wsRun(_)
wsRun(s) == IF s # <<>> /\ s[1] \in WS THEN 1 + wsRun(Tail(s)) ELSE 0

\* no replacement of whitespace runs
collapse_keep(s) == s

\* .replace(/\s\s+/g, ' '): every run of two or more whitespace characters
\* becomes one space; a single whitespace character is left as it is.
RECURSIVE collapse(_)
collapse(s) ==
  IF s = <<>> THEN <<>>
  ELSE IF wsRun(s) >= 2
       THEN <<" ">> \o collapse(SubSeq(s, wsRun(s) + 1, Len(s)))
       ELSE <<s[1]>> \o collapse(Tail(s))

\* .replace(/(?:\r\n|\r|\n|\t)/g, '')
IsNotBreak(c) == c \notin {"\r", "\n", "\t"}
strip(s) == SelectSeq(s, IsNotBreak)

\* .trim()
RECURSIVE trimLeft(_)
trimLeft(s) == IF s # <<>> /\ s[1] \in WS THEN trimLeft(Tail(s)) ELSE s
RECURSIVE trimRight(_)
trimRight(s) ==
  IF s # <<>> /\ s[Len(s)] \in WS THEN trimRight(SubSeq(s, 1, Len(s) - 1)) ELSE s
trim(s) == trimRight(trimLeft(s))

\* QueryBuilder.toString() of a builder whose fragment list is qq
toString(qq) == trim(strip(collapse(join(qq))))

\* What add() is called with: a fragment, or an Array whose elements are
\* again fragments or Arrays.
Frag(f) == [isArray |-> FALSE, frag |-> f, items |-> <<>>]
Array(s) == [isArray |-> TRUE, frag |-> <<>>, items |-> s]

\* forEach in reverse
RECURSIVE add_lastFirst(_, _)
add_lastFirst(qq, partial) ==
  IF partial.isArray
  THEN IF partial.items = <<>> THEN qq
       ELSE Append(add_lastFirst(qq, Array(Tail(partial.items))),
                   Head(partial.items).frag)
  ELSE Append(qq, partial.frag)

\* QueryBuilder.add(partial) on a builder whose fragment list is qq: the
\* fragment list afterwards.  An Array is walked by forEach, each element
\* going through add() itself; anything else is pushed.
RECURSIVE add(_, _)
add(qq, partial) ==
  IF partial.isArray
  THEN IF partial.items = <<>> THEN qq
       ELSE add(add(qq, Head(partial.items)), Array(Tail(partial.items)))
  ELSE Append(qq, partial.frag)

\* ------------------------------------------------------ JavaScript values
Str(m) == [cls |-> "String", msg |-> m]
\* String(v): a string is itself, an error is "<name>: <message>"
String(v) == IF v.cls = "String" THEN v.msg ELSE <<v.cls, ": ">> \o v.msg
\* new Error(v): the message is String(v)
Error(v) == [cls |-> "Error", msg |-> String(v)]
TypeError(m) == [cls |-> "TypeError", msg |-> m]
FetchError(m) == [cls |-> "FetchError", msg |-> m]
Results(r) == [cls |-> "Results", msg |-> <<r>>]
EmptyObject == [cls |-> "Object", msg |-> <<>>]
Undefined == [cls |-> "undefined", msg |-> <<>>]

\* ------------------------------------------------------------ inputs
\* Fragment lists of the query builders handed to addQuery.
Q1 == << <<"M">> >>
Q2 == << <<"M">>, <<" ", " ", "R", "\n">> >>
\* The (queryBuilder, params) arguments of addQuery.  params is a JSON object,
\* nothing (undefined), or an object that refers to itself, which
\* JSON.stringify refuses.
AddInputs ==
  { [q |-> Q1, params |-> "p1"], [q |-> Q2, params |-> "undefined"],
    [q |-> Q2, params |-> "circular"] }

\* ------------------------------------------------------------ transport
statusText(s) ==
  CASE s = 200 -> "OK"
    [] s = 201 -> "Created"
    [] s = 404 -> "Not Found"
    [] OTHER -> "Internal Server Error"

\* Response bodies the server answers the statements POST with: a body that
\* is not JSON, or a JSON object with results, commit and (optionally) errors.
Malformed ==
  [parses |-> FALSE, hasErrors |-> FALSE, errors |-> <<>>, results |-> "",
   commit |-> ""]
OkBody(r) ==
  [parses |-> TRUE, hasErrors |-> TRUE, errors |-> <<>>, results |-> r,
   commit |-> commitUrl]
ErrBody ==
  [parses |-> TRUE, hasErrors |-> TRUE, errors |-> <<"E1", "E2">>,
   results |-> "R1", commit |-> commitUrl]
NoErrorsBody ==
  [parses |-> TRUE, hasErrors |-> FALSE, errors |-> <<>>, results |-> "R1",
   commit |-> commitUrl]
\* The body of a response whose status is not OK/CREATED is never read.
PostResponses ==
  { [status |-> 200, body |-> Malformed], [status |-> 200, body |-> OkBody("R1")],
    [status |-> 200, body |-> ErrBody], [status |-> 200, body |-> NoErrorsBody],
    [status |-> 201, body |-> OkBody("R2")], [status |-> 201, body |-> ErrBody],
    [status |-> 500, body |-> Malformed] }
CommitResponses == { [status |-> s, body |-> Malformed] : s \in {200, 201, 404} }
NoResponse == [status |-> 0, body |-> Malformed]

NoBody == [present |-> FALSE, statements |-> <<>>]

\* ---------------------------------------------------------------- state
VARIABLES
  live,        \* the Transaction objects that have been constructed
  used,        \* used[t]: Transaction.used
  statements,  \* statements[t]: Transaction.statements
  exec,        \* exec[t]: one record per execute() call on t, in call order
  running,     \* the transaction whose execute() is between fetch and line 112
  appended,    \* appended[t]: the rendered text and the params of the addQuery
               \* calls that returned, in call order
  lastOp,      \* the last addQuery call: its transaction, whether execute()
               \* had been called on it before, and whether it threw
  q,           \* QueryBuilder.q of one query builder
  out,         \* what the last call of its toString() returned
  lastCall,    \* the last call on the query builder, and q before it
  simple       \* the promise of a simpleTransaction() call

txvars == <<live, used, statements, exec, running, appended, lastOp>>
qbvars == <<q, out, lastCall>>
vars == <<txvars, qbvars, simple>>

\* createTransaction() and the constructor: the state of the transactions in
\* txs before any call on them
Constructed(txs) ==
  /\ live = txs
  /\ used = [t \in Tx |-> FALSE]
  /\ statements = [t \in Tx |-> <<>>]
  /\ exec = [t \in Tx |-> <<>>]
  /\ running = 0
  /\ appended = [t \in Tx |-> <<>>]
  /\ lastOp = [op |-> "none", tx |-> 0, executed |-> FALSE, threw |-> FALSE]

\* QueryBuilder constructor: this.q = [], no call made yet
NewQueryBuilder ==
  /\ q = <<>>
  /\ out = <<>>
  /\ lastCall = [op |-> "none", before |-> <<>>, leaves |-> <<>>,
                 nested |-> FALSE, sent |-> FALSE]

\* no simpleTransaction() call made.  Of a call, simple keeps the state and
\* value of the promise it returned and what it was called with: the text of
\* the fragments and the params.
NoSimple ==
  [called |-> FALSE, state |-> "pending", value |-> Undefined,
   text |-> <<>>, params |-> "none"]

\* one Transaction
Init == Constructed({1}) /\ NewQueryBuilder /\ simple = NoSimple
\* two Transactions of the same Neo4j object
InitTwo == Constructed(Tx) /\ NewQueryBuilder /\ simple = NoSimple

TotalAdded == Len(statements[1]) + Len(statements[2])
TotalExec == Len(exec[1]) + Len(exec[2])

\* ------------------------------------------------------------ promises
\* resolve / reject of the promise execute() returns: the first call settles
\* it, a later call is counted and otherwise ignored.
resolve(rec, v) ==
  [rec EXCEPT !.resolves = @ + 1,
              !.state = IF rec.state = "pending" THEN "resolved" ELSE @,
              !.value = IF rec.state = "pending" THEN v ELSE @]
reject(rec, v) ==
  [rec EXCEPT !.rejects = @ + 1,
              !.state = IF rec.state = "pending" THEN "rejected" ELSE @,
              !.value = IF rec.state = "pending" THEN v ELSE @]

\* .catch((err) => { reject(new Error(err)); })
catch(rec, err) == reject([rec EXCEPT !.pc = "done"], Error(err))

\* ------------------------------------------------------ JSON.stringify
\* JSON.stringify throws a TypeError on a circular structure.
canStringify(stmts) == \A i \in 1..Len(stmts) : stmts[i].parameters # "circular"
\* A property whose value is undefined is left out of the object.
stringifyStatement(st) ==
  IF st.parameters = "undefined" THEN [statement |-> st.statement] ELSE st
stringify(stmts) ==
  [present |-> TRUE,
   statements |-> [i \in 1..Len(stmts) |-> stringifyStatement(stmts[i])]]

\* ------------------------------------------------------------ requests
\* fetch(url, {headers, method, body}) called by the execution rec: the
\* request joins the requests the execution has handed to the transport
fetch(rec, method, url, body) ==
  [rec EXCEPT !.requests =
     Append(@, [method |-> method, url |-> url, body |-> body])]

\* let result = {} and the promise just constructed
NewExecution ==
  [pc |-> "sync", requests |-> <<>>, res1 |-> NoResponse, result |-> EmptyObject,
   res2 |-> NoResponse, del |-> "none", state |-> "pending",
   value |-> Undefined, resolves |-> 0, rejects |-> 0]

\* --------------------------------------------------------- Transaction
\* mutant: unshift instead of push
push_unshift(list, queryBuilder, params) ==
  <<[statement |-> toString(queryBuilder), parameters |-> params]>> \o list

\* this.statements.push({statement: queryBuilder.toString(), parameters: params})
push(list, queryBuilder, params) ==
  Append(list, [statement |-> toString(queryBuilder), parameters |-> params])

\* mutant: the statement is pushed before used is tested
addQuery_pushFirst(t, queryBuilder, params) ==
  /\ running = 0
  /\ TotalAdded < MaxAdd
  /\ statements' = [statements EXCEPT ![t] = push(@, queryBuilder, params)]
  /\ lastOp' = [op |-> "addQuery", tx |-> t,
                executed |-> exec[t] # <<>>, threw |-> used[t]]
  /\ appended' = IF used[t] THEN appended
                 ELSE [appended EXCEPT ![t] = Append(@, [text |-> toString(queryBuilder), params |-> params])]
  /\ UNCHANGED <<qbvars, simple, live, used, exec, running>>

\* addQuery(queryBuilder, params)
addQuery(t, queryBuilder, params) ==
  /\ running = 0
  /\ IF used[t]
     THEN /\ lastOp' = [op |-> "addQuery", tx |-> t,
                         executed |-> exec[t] # <<>>, threw |-> TRUE]
          /\ UNCHANGED <<qbvars, simple, live, used, statements, exec, running, appended>>
     ELSE /\ TotalAdded < MaxAdd
          /\ statements' = [statements EXCEPT ![t] = push(@, queryBuilder, params)]
          /\ appended' = [appended EXCEPT ![t] = Append(@, [text |-> toString(queryBuilder), params |-> params])]
          /\ lastOp' = [op |-> "addQuery", tx |-> t,
                         executed |-> exec[t] # <<>>, threw |-> FALSE]
          /\ UNCHANGED <<qbvars, simple, live, used, exec, running>>

\* execute(), up to and including the call of fetch: the promise is
\* constructed, the body serialized and the statements POST handed to fetch.
\* An exception of JSON.stringify leaves the executor: the promise is rejected
\* with it and the rest of the executor, line 112 included, does not run.
executor(stmts) ==
  IF canStringify(stmts)
  THEN fetch(NewExecution, "post", transactionUrl, stringify(stmts))
  ELSE reject([NewExecution EXCEPT !.pc = "done"],
              TypeError(<<"Converting circular structure to JSON">>))

execute(t) ==
  /\ running = 0
  /\ TotalExec < MaxExec
  /\ exec' = [exec EXCEPT ![t] = Append(@, executor(statements[t]))]
  /\ running' = IF canStringify(statements[t]) THEN t ELSE running
  /\ UNCHANGED <<qbvars, simple, live, used, statements, appended, lastOp>>

\* mutant: used is one flag shared by all transactions
executeSetUsed_shared(t) ==
  /\ running = t
  /\ used' = [u \in Tx |-> TRUE]
  /\ exec' = [exec EXCEPT ![t][Len(exec[t])].pc = "post"]
  /\ running' = 0
  /\ UNCHANGED <<qbvars, simple, live, statements, appended, lastOp>>

\* this.used = true, the last statement of the executor
executeSetUsed(t) ==
  /\ running = t
  /\ used' = [used EXCEPT ![t] = TRUE]
  /\ exec' = [exec EXCEPT ![t][Len(exec[t])].pc = "post"]
  /\ running' = 0
  /\ UNCHANGED <<qbvars, simple, live, statements, appended, lastOp>>

isOk(status) == status = HTTP_OK \/ status = HTTP_CREATED

\* mutant: the statements POST is sent again instead of the DELETE
onBadStatus_retry(rec, res) ==
  catch(fetch([rec EXCEPT !.res1 = res], "post", transactionUrl,
              rec.requests[1].body),
        Error(Str(<<statusText(res.status)>>)))
\* mutant: no rollback DELETE
onBadStatus_noDelete(rec, res) ==
  catch([rec EXCEPT !.res1 = res], Error(Str(<<statusText(res.status)>>)))

\* mutant: the commit POST is sent along with the DELETE
onBadStatus_commitToo(rec, res) ==
  catch(fetch(fetch([rec EXCEPT !.res1 = res, !.del = "sent"],
                    "delete", transactionUrl, NoBody),
              "post", commitUrl, NoBody),
        Error(Str(<<statusText(res.status)>>)))

\* the body of if (res.status !== HTTP_OK && res.status !== HTTP_CREATED):
\* the DELETE is handed to fetch, its promise dropped, and the error thrown
\* reaches the catch handler
onBadStatus(rec, res) ==
  catch(fetch([rec EXCEPT !.res1 = res, !.del = "sent"],
              "delete", transactionUrl, NoBody),
        Error(Str(<<statusText(res.status)>>)))

\* mutant: the commit POST goes to the transaction endpoint
onJson_commitToEndpoint(rec, json) ==
  IF ~json.parses
  THEN catch(rec, FetchError(<<"invalid json response body">>))
  ELSE IF ~json.hasErrors
  THEN catch(rec, TypeError(<<"Cannot read property 'length' of undefined">>))
  ELSE IF Len(json.errors) > 0
  THEN catch(rec, Str(<<json.errors[1]>>))
  ELSE fetch([rec EXCEPT !.result = Results(json.results), !.pc = "commit"],
             "post", transactionUrl, NoBody)
\* mutant: the last error entry is reported instead of the first
onJson_lastError(rec, json) ==
  IF ~json.parses
  THEN catch(rec, FetchError(<<"invalid json response body">>))
  ELSE IF ~json.hasErrors
  THEN catch(rec, TypeError(<<"Cannot read property 'length' of undefined">>))
  ELSE IF Len(json.errors) > 0
  THEN catch(rec, Str(<<json.errors[Len(json.errors)]>>))
  ELSE fetch([rec EXCEPT !.result = Results(json.results), !.pc = "commit"],
             "post", json.commit, NoBody)

\* res.json() and the second handler: a body that is not JSON rejects the
\* promise of res.json(); json.errors.length of a body without errors throws
\* a TypeError; a non-empty errors throws the first message; otherwise the
\* results are recorded and the commit POST is handed to fetch
onJson(rec, json) ==
  IF ~json.parses
  THEN catch(rec, FetchError(<<"invalid json response body">>))
  ELSE IF ~json.hasErrors
  THEN catch(rec, TypeError(<<"Cannot read property 'length' of undefined">>))
  ELSE IF Len(json.errors) > 0
  THEN catch(rec, Str(<<json.errors[1]>>))
  ELSE fetch([rec EXCEPT !.result = Results(json.results), !.pc = "commit"],
             "post", json.commit, NoBody)

\* mutant: a commit answered 201 counts as committed
onCommit_acceptCreated(rec, res) ==
  IF isOk(res.status)
  THEN resolve([rec EXCEPT !.res2 = res, !.pc = "done"], rec.result)
  ELSE catch([rec EXCEPT !.res2 = res], Error(Str(<<"commit failed">>)))
\* mutant: resolve is called before the status is tested
onCommit_resolveFirst(rec, res) ==
  IF res.status = HTTP_OK
  THEN resolve([rec EXCEPT !.res2 = res, !.pc = "done"], rec.result)
  ELSE catch(resolve([rec EXCEPT !.res2 = res], rec.result),
             Error(Str(<<"commit failed">>)))

\* mutant: a commit answered neither 200 nor 404 is left alone
onCommit_ignoreOther(rec, res) ==
  IF res.status = HTTP_OK
  THEN resolve([rec EXCEPT !.res2 = res, !.pc = "done"], rec.result)
  ELSE IF res.status = 404
  THEN catch([rec EXCEPT !.res2 = res], Error(Str(<<"commit failed">>)))
  ELSE [rec EXCEPT !.res2 = res, !.pc = "done"]

\* the third handler: resolve(result) on 200, otherwise throw
onCommit(rec, res) ==
  IF res.status = HTTP_OK
  THEN resolve([rec EXCEPT !.res2 = res, !.pc = "done"], rec.result)
  ELSE catch([rec EXCEPT !.res2 = res], Error(Str(<<"commit failed">>)))

\* first .then((res) => ...): the response to the statements POST has arrived
thenStatus(t, e, res) ==
  /\ running = 0
  /\ e \in 1..Len(exec[t])
  /\ exec[t][e].pc = "post"
  /\ IF ~isOk(res.status)
     THEN exec' = [exec EXCEPT ![t][e] = onBadStatus(@, res)]
     ELSE exec' = [exec EXCEPT ![t][e] = [@ EXCEPT !.res1 = res, !.pc = "json"]]
  /\ UNCHANGED <<qbvars, simple, live, used, statements, running, appended, lastOp>>

\* res.json() settles, and second .then((json) => ...)
thenJson(t, e) ==
  /\ running = 0
  /\ e \in 1..Len(exec[t])
  /\ exec[t][e].pc = "json"
  /\ exec' = [exec EXCEPT ![t][e] = onJson(@, @.res1.body)]
  /\ UNCHANGED <<qbvars, simple, live, used, statements, running, appended, lastOp>>

\* mutant: the statements are dropped once the commit is answered
thenCommit_clear(t, e, res) ==
  /\ running = 0
  /\ e \in 1..Len(exec[t])
  /\ exec[t][e].pc = "commit"
  /\ exec' = [exec EXCEPT ![t][e] = onCommit(@, res)]
  /\ statements' = [statements EXCEPT ![t] = <<>>]
  /\ UNCHANGED <<qbvars, simple, live, used, running, appended, lastOp>>

\* third .then((res) => ...): the response to the commit POST has arrived
thenCommit(t, e, res) ==
  /\ running = 0
  /\ e \in 1..Len(exec[t])
  /\ exec[t][e].pc = "commit"
  /\ exec' = [exec EXCEPT ![t][e] = onCommit(@, res)]
  /\ UNCHANGED <<qbvars, simple, live, used, statements, running, appended, lastOp>>

\* mutant: a failed request makes the transaction usable again
fetchRejected_reset(t, e) ==
  /\ running = 0
  /\ e \in 1..Len(exec[t])
  /\ exec[t][e].pc \in {"post", "commit"}
  /\ exec' = [exec EXCEPT ![t][e] = catch(@, FetchError(<<"request failed">>))]
  /\ used' = [used EXCEPT ![t] = FALSE]
  /\ UNCHANGED <<qbvars, simple, live, statements, running, appended, lastOp>>

\* the promise of an awaited fetch (statements POST or commit POST) is
\* rejected: the request failed in the transport
fetchRejected(t, e) ==
  /\ running = 0
  /\ e \in 1..Len(exec[t])
  /\ exec[t][e].pc \in {"post", "commit"}
  /\ exec' = [exec EXCEPT ![t][e] = catch(@, FetchError(<<"request failed">>))]
  /\ UNCHANGED <<qbvars, simple, live, used, statements, running, appended, lastOp>>

\* mutant: a listener on the DELETE settles the promise with its outcome
deleteAnswered_surface(t, e) ==
  /\ running = 0
  /\ e \in 1..Len(exec[t])
  /\ exec[t][e].del = "sent"
  /\ exec' = [exec EXCEPT ![t][e] =
                [@ EXCEPT !.del = "answered", !.rejects = @ + 1,
                          !.value = Error(Str(<<"rollback failed">>))]]
  /\ UNCHANGED <<qbvars, simple, live, used, statements, running, appended, lastOp>>

\* the rollback DELETE is answered (or fails): nothing listens
deleteAnswered(t, e) ==
  /\ running = 0
  /\ e \in 1..Len(exec[t])
  /\ exec[t][e].del = "sent"
  /\ exec' = [exec EXCEPT ![t][e].del = "answered"]
  /\ UNCHANGED <<qbvars, simple, live, used, statements, running, appended, lastOp>>

Next ==
  \/ \E t \in live, a \in AddInputs : addQuery(t, a.q, a.params)
  \/ \E t \in live : execute(t)
  \/ \E t \in live : executeSetUsed(t)
  \/ \E t \in live, e \in 1..MaxExec, res \in PostResponses : thenStatus(t, e, res)
  \/ \E t \in live, e \in 1..MaxExec : thenJson(t, e)
  \/ \E t \in live, e \in 1..MaxExec, res \in CommitResponses : thenCommit(t, e, res)
  \/ \E t \in live, e \in 1..MaxExec : fetchRejected(t, e)
  \/ \E t \in live, e \in 1..MaxExec : deleteAnswered(t, e)

Spec == Init /\ [][Next]_vars
SpecTwo == InitTwo /\ [][Next]_vars

\* The transport answers the awaited request of execution e of t: the
\* statements POST or the commit POST gets a response, or fails.
answered(t, e) ==
  \/ \E res \in PostResponses : thenStatus(t, e, res)
  \/ \E res \in CommitResponses : thenCommit(t, e, res)
  \/ fetchRejected(t, e)

\* The promise executor runs to its end, the transport answers every awaited
\* request and delivers the body of a response that is being read.  Nothing
\* is assumed about the rollback DELETE, which is not awaited.
FairSpec ==
  /\ Spec
  /\ \A t \in Tx : WF_vars(executeSetUsed(t))
  /\ \A t \in Tx : \A e \in 1..MaxExec : WF_vars(answered(t, e))
  /\ \A t \in Tx : \A e \in 1..MaxExec : WF_vars(thenJson(t, e))

\* ------------------------------------------------ the query builder alone
\* Fragments a caller writes: a word, a line with runs of blanks and a
\* trailing newline, a line with a leading tab and a lone carriage return.
Frags == { <<"M">>,
           <<" ", " ", "R", " ", " ", "u", "\n">>,
           <<"\t", "a", "\r", "b">> }

\* What add() is called with: any of the fragments, or an Array of up to
\* MaxItems elements, each the word, the line with the tab, or an Array of
\* up to MaxItems of these.
ListFrags == { <<"M">>, <<"\t", "a", "\r", "b">> }
SeqsUpTo(S) == UNION {[1..n -> S] : n \in 0..MaxItems}
Partials0 == {Frag(f) : f \in ListFrags}
Partials1 == Partials0 \cup {Array(s) : s \in SeqsUpTo(Partials0)}
Partials ==
  {Frag(f) : f \in Frags} \cup Partials1 \cup {Array(s) : s \in SeqsUpTo(Partials1)}

\* the fragments of partial, depth first and left to right
RECURSIVE Leaves(_)
Leaves(partial) ==
  IF ~partial.isArray THEN <<partial.frag>>
  ELSE IF partial.items = <<>> THEN <<>>
  ELSE Leaves(Head(partial.items)) \o Leaves(Array(Tail(partial.items)))

IsNested(partial) ==
  partial.isArray /\ \E i \in 1..Len(partial.items) : partial.items[i].isArray

\* the calls of add() a run makes: the argument, with its fragments in
\* depth-first order and whether it holds an Array inside an Array
AddCalls ==
  { [partial |-> p, leaves |-> Leaves(p), nested |-> IsNested(p)] :
      p \in {x \in Partials : Len(Leaves(x)) <= MaxQ} }

\* some execute() has handed its statements POST to fetch
AnySent == \E t \in live : \E e \in 1..Len(exec[t]) : exec[t][e].requests # <<>>

\* add() on a builder whose rendering the transactions look up again
QueryBuilder_add_rerender(c) ==
  /\ Len(q) + Len(c.leaves) <= MaxQ
  /\ q' = add(q, c.partial)
  /\ lastCall' = [op |-> "add", before |-> q, leaves |-> c.leaves,
                  nested |-> c.nested, sent |-> AnySent]
  /\ statements' = [t \in Tx |-> [i \in 1..Len(statements[t]) |->
                      [statements[t][i] EXCEPT !.statement = toString(q')]]]
  /\ UNCHANGED <<out, simple, live, used, exec, running, appended, lastOp>>

\* a call of add(c.partial).  sent records whether a statements POST had
\* been issued before the call.
QueryBuilder_add(c) ==
  /\ Len(q) + Len(c.leaves) <= MaxQ
  /\ q' = add(q, c.partial)
  /\ lastCall' = [op |-> "add", before |-> q, leaves |-> c.leaves,
                  nested |-> c.nested, sent |-> AnySent]
  /\ UNCHANGED <<out, txvars, simple>>

\* toString() that empties the list it has rendered
QueryBuilder_toString_drain ==
  /\ out' = toString(q)
  /\ q' = <<>>
  /\ lastCall' = [op |-> "toString", before |-> q, leaves |-> <<>>,
                  nested |-> lastCall.op = "toString", sent |-> AnySent]
  /\ UNCHANGED <<txvars, simple>>

\* a call of toString(): join and replace build new strings, this.q is
\* not assigned.  nested records that the call before was toString() too.
QueryBuilder_toString ==
  /\ out' = toString(q)
  /\ q' = q
  /\ lastCall' = [op |-> "toString", before |-> q, leaves |-> <<>>,
                  nested |-> lastCall.op = "toString", sent |-> AnySent]
  /\ UNCHANGED <<txvars, simple>>

NextQB ==
  \/ \E c \in AddCalls : QueryBuilder_add(c)
  \/ QueryBuilder_toString

SpecQB == Init /\ [][NextQB]_vars

\* ------------------------------------- a query builder and a transaction
\* The add() calls and the params of a caller that keeps one query builder,
\* hands it to addQuery and goes on adding to it.
BuilderCalls ==
  { c \in AddCalls :
      c.partial \in { Frag(<<"M">>),
                      Array(<<Frag(<<"\t", "a", "\r", "b">>),
                              Array(<<Frag(<<"M">>)>>)>>) } }
BuilderParams == {"p1", "undefined"}

\* The transaction is executed once; the builder is added to before, between
\* and after every step of it.

NextBuilder ==
  \/ \E c \in BuilderCalls : QueryBuilder_add(c)
  \/ \E t \in live, params \in BuilderParams : addQuery(t, q, params)
  \/ \E t \in live : exec[t] = <<>> /\ execute(t)
  \/ \E t \in live : executeSetUsed(t)
  \/ \E t \in live, e \in 1..MaxExec, res \in PostResponses : thenStatus(t, e, res)
  \/ \E t \in live, e \in 1..MaxExec : thenJson(t, e)
  \/ \E t \in live, e \in 1..MaxExec, res \in CommitResponses : thenCommit(t, e, res)
  \/ \E t \in live, e \in 1..MaxExec : fetchRejected(t, e)
  \/ \E t \in live, e \in 1..MaxExec : deleteAnswered(t, e)

SpecBuilder == Init /\ [][NextBuilder]_vars

\* ------------------------------------------------------ simpleTransaction
\* The results arrays the server answers with: R1 has one entry with two
\* rows of two columns, R2 one entry without rows.
ResultsJson(r) ==
  IF r = "R1"
  THEN << [columns |-> <<"u", "v">>,
           data |-> << [row |-> <<"a", "x">>], [row |-> <<"b", "y">>] >>] >>
  ELSE << [columns |-> <<"u", "v">>, data |-> <<>>] >>

Null == [cls |-> "null", msg |-> <<>>]
List(l) == [cls |-> "Array", msg |-> l]

\* row[row.length - 1] instead of row[0]
getSimpleListData_lastColumn(result) ==
  IF result = <<>> \/ result[1].data = <<>> THEN Null
  ELSE List([i \in 1..Len(result[1].data) |->
               result[1].data[i].row[Len(result[1].data[i].row)]])

\* getSimpleListData(result): null without a first entry or without rows,
\* else the first column of every row of the first entry
getSimpleListData(result) ==
  IF result = <<>> \/ result[1].data = <<>> THEN Null
  ELSE List([i \in 1..Len(result[1].data) |-> result[1].data[i].row[1]])

\* what simpleTransaction() is called with
SimpleInputs ==
  { [statements |-> Array(<<Frag(<<"M">>),
                            Frag(<<" ", " ", "R", " ", " ", "u", "\n">>)>>),
     params |-> "p1"],
    [statements |-> Array(<<Array(<<Frag(<<"M">>)>>),
                            Frag(<<"\t", "a", "\r", "b">>)>>),
     params |-> "undefined"],
    [statements |-> Array(<<Frag(<<"M">>)>>), params |-> "circular"],
    [statements |-> Frag(<<"M">>), params |-> "p1"],
    [statements |-> Array(<<>>), params |-> "undefined"] }

\* simpleTransaction(statements, params), the promise executor: a new
\* Transaction t and a new QueryBuilder are created, the statements are
\* added to the builder, the builder to the transaction, and execute() is
\* called, which runs up to the call of fetch.
simpleTransaction(t, partial, params) ==
  /\ ~simple.called
  /\ running = 0
  /\ t \notin live
  /\ live' = live \cup {t}
  /\ statements' = [statements EXCEPT ![t] = push(<<>>, add(<<>>, partial), params)]
  /\ appended' = [appended EXCEPT ![t] =
                    <<[text |-> toString(add(<<>>, partial)), params |-> params]>>]
  /\ exec' = [exec EXCEPT ![t] = <<executor(statements'[t])>>]
  /\ running' = IF canStringify(statements'[t]) THEN t ELSE running
  /\ simple' = [called |-> TRUE, state |-> "pending", value |-> Undefined,
                text |-> toString(Leaves(partial)), params |-> params]
  /\ UNCHANGED <<qbvars, used, lastOp>>

\* execute() of the simple transaction has resolved:
\* .then((result) => { resolve(this.getSimpleListData(result)); })
simpleThen(t) ==
  /\ simple.called /\ simple.state = "pending"
  /\ exec[t] # <<>> /\ exec[t][1].state = "resolved"
  /\ simple' = [simple EXCEPT
                  !.state = "resolved",
                  !.value = getSimpleListData(ResultsJson(exec[t][1].value.msg[1]))]
  /\ UNCHANGED <<qbvars, txvars>>

\* execute() of the simple transaction has rejected: .catch(reject)
simpleCatch(t) ==
  /\ simple.called /\ simple.state = "pending"
  /\ exec[t] # <<>> /\ exec[t][1].state = "rejected"
  /\ simple' = [simple EXCEPT !.state = "rejected", !.value = exec[t][1].value]
  /\ UNCHANGED <<qbvars, txvars>>

\* a Neo4j object on which nothing has been called
InitSimple == Constructed({}) /\ NewQueryBuilder /\ simple = NoSimple

\* The Transaction of simpleTransaction() is local to it: no other addQuery
\* or execute call reaches it.
NextSimple ==
  \/ \E a \in SimpleInputs : simpleTransaction(1, a.statements, a.params)
  \/ \E t \in live : executeSetUsed(t)
  \/ \E t \in live, e \in 1..MaxExec, res \in PostResponses : thenStatus(t, e, res)
  \/ \E t \in live, e \in 1..MaxExec : thenJson(t, e)
  \/ \E t \in live, e \in 1..MaxExec, res \in CommitResponses : thenCommit(t, e, res)
  \/ \E t \in live, e \in 1..MaxExec : fetchRejected(t, e)
  \/ \E t \in live, e \in 1..MaxExec : deleteAnswered(t, e)
  \/ \E t \in live : simpleThen(t)
  \/ \E t \in live : simpleCatch(t)

SpecSimple == InitSimple /\ [][NextSimple]_vars

\* The reactions of a settled promise are run by the microtask queue.
FairSimple ==
  /\ SpecSimple
  /\ WF_vars(\E t \in live : simpleThen(t))
  /\ WF_vars(\E t \in live : simpleCatch(t))

\* ---------------------------------------------------------------- claims
Execs(t) == 1..Len(exec[t])

\* the statements POSTs (a POST that carries a body), the commit POSTs (a
\* POST without one) and the rollback DELETEs among the requests of rec
IsInitialPost(r) == r.method = "post" /\ r.body.present
IsCommitPost(r) == r.method = "post" /\ ~r.body.present
IsDelete(r) == r.method = "delete"
InitialPosts(rec) == SelectSeq(rec.requests, IsInitialPost)
CommitPosts(rec) == SelectSeq(rec.requests, IsCommitPost)
Deletes(rec) == SelectSeq(rec.requests, IsDelete)

\* the first response has arrived with status 200/201 and an errors list
\* that is present and empty
FirstOkNoErrors(rec) ==
  /\ rec.res1 # NoResponse
  /\ isOk(rec.res1.status)
  /\ rec.res1.body.parses /\ rec.res1.body.hasErrors
  /\ rec.res1.body.errors = <<>>

\* C1: once execute() has been invoked on a Transaction, every later addQuery
\* call on it throws the reuse error, whatever became of the execution.
C1_AddQueryFailsAfterExecute ==
  (lastOp.op = "addQuery" /\ lastOp.executed) => lastOp.threw

\* the number of statements POSTs issued by the first n executions of t
RECURSIVE InitialPostsUpTo(_, _)
InitialPostsUpTo(t, n) ==
  IF n = 0 THEN 0
  ELSE Len(InitialPosts(exec[t][n])) + InitialPostsUpTo(t, n - 1)

\* C2 as stated: a Transaction issues at most one statements POST, however
\* often execute is called.
C2_AtMostOneInitialPostEver ==
  \A t \in live : InitialPostsUpTo(t, Len(exec[t])) <= 1

\* C2 amended: every execute() call issues at most one statements POST (no
\* retry, no rerun), and it is issued in the call itself, to the endpoint.
C2_OneInitialPostPerExecute ==
  \A t \in live : \A e \in Execs(t) :
    /\ Len(InitialPosts(exec[t][e])) <= 1
    /\ \A i \in 1..Len(exec[t][e].requests) :
         IsInitialPost(exec[t][e].requests[i]) =>
           i = 1 /\ exec[t][e].requests[i].url = transactionUrl
C2_Witness ==
  \E t \in live :
    /\ Len(exec[t]) = 2
    /\ Len(InitialPosts(exec[t][1])) = 1
    /\ Len(InitialPosts(exec[t][2])) = 1
    /\ exec[t][1].pc = "done"

\* C3: the statements array of the body of the statements POST holds exactly
\* the (rendered text, parameters) pairs of the addQuery calls that returned,
\* in call order.
EntryIs(entry, a) ==
  /\ entry.statement = a.text
  /\ IF a.params = "undefined"
     THEN DOMAIN entry = {"statement"}
     ELSE DOMAIN entry = {"statement", "parameters"} /\ entry.parameters = a.params
C3_BodyPreservesAppendOrder ==
  \A t \in live : \A e \in Execs(t) :
    \A i \in 1..Len(exec[t][e].requests) :
      LET r == exec[t][e].requests[i] IN
      IsInitialPost(r) =>
        /\ Len(r.body.statements) = Len(appended[t])
        /\ \A k \in 1..Len(appended[t]) : EntryIs(r.body.statements[k], appended[t][k])
C3_Witness ==
  \E t \in live : \E e \in Execs(t) :
    /\ Len(InitialPosts(exec[t][e])) = 1
    /\ Len(appended[t]) = 2
    /\ appended[t][1] # appended[t][2]
    /\ appended[t][2].params = "p1"

\* C4: after a first response with status 200/201, an empty errors list and
\* commit URL U, the execution issues exactly one second POST, to U and not to
\* the endpoint, and a 200 answer to it resolves the promise with the results
\* of the first response.
C4_CommitPostThenResolve ==
  \A t \in live : \A e \in Execs(t) :
    LET rec == exec[t][e] IN
    FirstOkNoErrors(rec) =>
      /\ rec.pc = "json" => Len(rec.requests) = 1
      /\ rec.pc # "json" =>
           /\ Len(rec.requests) = 2
           /\ IsInitialPost(rec.requests[1])
           /\ IsCommitPost(rec.requests[2])
           /\ rec.requests[2].url = rec.res1.body.commit
           /\ rec.requests[2].url # transactionUrl
      /\ rec.res2.status = 200 =>
           /\ rec.state = "resolved"
           /\ rec.value = Results(rec.res1.body.results)
C4_Witness ==
  \E t \in live : \E e \in Execs(t) :
    /\ FirstOkNoErrors(exec[t][e])
    /\ exec[t][e].res1.status = 201
    /\ exec[t][e].res2.status = 200
    /\ exec[t][e].state = "resolved"

\* C5: after a first response whose status is neither 200 nor 201, the
\* execution has issued a DELETE to the endpoint, its promise is rejected, and
\* it never issues a commit POST.
C5_RollbackOnBadStatus ==
  \A t \in live : \A e \in Execs(t) :
    LET rec == exec[t][e] IN
    (rec.res1 # NoResponse /\ ~isOk(rec.res1.status)) =>
      /\ Len(Deletes(rec)) = 1
      /\ Deletes(rec)[1].url = transactionUrl
      /\ rec.state = "rejected"
      /\ CommitPosts(rec) = <<>>
C5_Witness ==
  \E t \in live : \E e \in Execs(t) :
    /\ exec[t][e].res1.status = 500
    /\ exec[t][e].del = "answered"
    /\ exec[t][e].state = "rejected"

\* the first response has arrived with status 200/201 and a non-empty errors
\* list, and the handler of its body has run
DoneWithErrors(rec) ==
  /\ rec.res1 # NoResponse
  /\ isOk(rec.res1.status)
  /\ rec.res1.body.parses /\ rec.res1.body.hasErrors
  /\ rec.res1.body.errors # <<>>
  /\ rec.pc = "done"

\* C6: a first response with status 200/201 and a non-empty errors list
\* rejects the promise with the message of the first error entry; neither a
\* rollback DELETE nor a commit POST is issued.
C6_StatementErrorRejects ==
  \A t \in live : \A e \in Execs(t) :
    LET rec == exec[t][e] IN
    /\ DoneWithErrors(rec) =>
         /\ rec.state = "rejected"
         /\ rec.value.cls = "Error"
         /\ rec.value.msg = <<rec.res1.body.errors[1]>>
    /\ (rec.res1 # NoResponse /\ isOk(rec.res1.status)
          /\ rec.res1.body.parses /\ rec.res1.body.hasErrors
          /\ rec.res1.body.errors # <<>>) =>
         /\ Deletes(rec) = <<>>
         /\ CommitPosts(rec) = <<>>
         /\ rec.del = "none"
C6_Witness ==
  \E t \in live : \E e \in Execs(t) :
    /\ DoneWithErrors(exec[t][e])
    /\ Len(exec[t][e].res1.body.errors) = 2
    /\ exec[t][e].state = "rejected"

\* C7: when the commit POST is answered with a status other than 200, the
\* promise is rejected with the commit-failed error, the results recorded
\* from the first response are not delivered, and no DELETE is issued.
C7_CommitFailureRejects ==
  \A t \in live : \A e \in Execs(t) :
    LET rec == exec[t][e] IN
    (rec.res2 # NoResponse /\ rec.res2.status # 200) =>
      /\ FirstOkNoErrors(rec)
      /\ rec.state = "rejected"
      /\ rec.value = Error(Error(Str(<<"commit failed">>)))
      /\ rec.resolves = 0
      /\ rec.result = Results(rec.res1.body.results)
      /\ rec.value # rec.result
      /\ Deletes(rec) = <<>>
C7_Witness ==
  \E t \in live : \E e \in Execs(t) :
    /\ exec[t][e].res2.status = 201
    /\ exec[t][e].state = "rejected"
    /\ exec[t][e].result = Results("R2")

\* C8: the promise of an execute() call is settled at most once, exactly once
\* when the execution has ended, never both ways; it is resolved only after a
\* first response with status 200/201 and empty errors and a commit response
\* with status 200, and then with the results of the first response.
C8_SingleOutcome ==
  \A t \in live : \A e \in Execs(t) :
    LET rec == exec[t][e] IN
    /\ rec.resolves + rec.rejects <= 1
    /\ rec.pc = "done" <=> rec.resolves + rec.rejects = 1
    /\ rec.state = "pending" <=> rec.resolves + rec.rejects = 0
    /\ rec.state = "resolved" =>
         /\ rec.rejects = 0
         /\ FirstOkNoErrors(rec)
         /\ rec.res2.status = 200
         /\ rec.value = Results(rec.res1.body.results)
    /\ rec.state = "rejected" => rec.resolves = 0 /\ rec.value.cls # "Results"
C8_Witness ==
  \E t \in live :
    /\ Len(exec[t]) = 2
    /\ exec[t][1].state = "resolved" /\ exec[t][1].value = Results("R1")
    /\ exec[t][2].state = "rejected" /\ exec[t][2].res2.status = 404

\* C9: when the statements POST has been handed to the transport, used is
\* already true.
C9_UsedBeforeDispatch ==
  \A t \in live : \A e \in Execs(t) :
    InitialPosts(exec[t][e]) # <<>> => used[t]

\* the requests issued so far, per transaction and execution
AllRequests == [t \in Tx |-> [e \in Execs(t) |-> exec[t][e].requests]]

\* C10: an addQuery call that throws the reuse error leaves the statement
\* list and the used flag as they were and issues no request; an addQuery call
\* that returns issues no request either.
C10_AddQueryFrame ==
  [][\A t \in live : \A a \in AddInputs :
       addQuery(t, a.q, a.params) =>
         /\ AllRequests' = AllRequests
         /\ used[t] => /\ lastOp'.threw
                       /\ statements' = statements
                       /\ used' = used
         /\ ~used[t] => /\ ~lastOp'.threw
                        /\ used' = used]_vars
C10_Witness ==
  \E t \in live :
    /\ lastOp.op = "addQuery" /\ lastOp.tx = t /\ lastOp.threw
    /\ statements[t] # <<>>
    /\ exec[t] # <<>> /\ exec[t][1].requests # <<>>

\* C11: add() flattens nested fragment lists recursively and in order: after
\* add(x) the fragment list is what it was before, followed by the fragments
\* of x depth first and left to right.
C11_AddFlattensInOrder ==
  lastCall.op = "add" => q = lastCall.before \o lastCall.leaves

\* a nested list was added after something had been accumulated
C11_Witness ==
  /\ lastCall.op = "add" /\ lastCall.nested
  /\ lastCall.before # <<>>
  /\ Len(lastCall.leaves) >= 2
  /\ lastCall.leaves[1] # lastCall.leaves[2]

HasBreak(s) == \E i \in 1..Len(s) : s[i] \in {"\n", "\r", "\t"}
HasAdjacentWS(s) == \E i \in 1..(Len(s) - 1) : s[i] \in WS /\ s[i + 1] \in WS
IsTrimmed(s) == s = <<>> \/ (s[1] \notin WS /\ s[Len(s)] \notin WS)
ExampleFragments == << <<"M">>, <<" ", " ", "R", " ", " ", "u", "\n">> >>
ExampleText == <<"M", " ", "R", " ", "u">>

\* C12: whatever fragments are accumulated, what toString() returns holds no
\* newline, carriage return or tab, no two adjacent whitespace characters and
\* no leading or trailing whitespace; the word and the line of the example
\* render as the three words separated by single spaces.
C12_ToStringNormalises ==
  lastCall.op = "toString" =>
    /\ ~HasBreak(out)
    /\ ~HasAdjacentWS(out)
    /\ IsTrimmed(out)
    /\ (q = ExampleFragments => out = ExampleText)

\* the example has been rendered
C12_Witness ==
  lastCall.op = "toString" /\ q = ExampleFragments /\ out = ExampleText

\* C13: toString() leaves the fragment list as it was, and a call that
\* directly follows another returns the same string.
C13_ToStringPure ==
  [][QueryBuilder_toString =>
       /\ q' = q
       /\ (lastCall.op = "toString" => out' = out)]_vars

\* toString() was called twice in a row on a builder that holds fragments
C13_Witness ==
  /\ lastCall.op = "toString" /\ lastCall.nested
  /\ Len(q) >= 2 /\ out # <<>>

\* the list extraction of the two results arrays, written out
ExpectedList(r) == IF r = "R1" THEN List(<<"a", "b">>) ELSE Null

\* C14: simpleTransaction(statements, params) runs one new Transaction that
\* holds exactly one statement, the text all the fragments render to with
\* params as its parameters, and executes it exactly once; its promise is
\* resolved only when that execute has resolved, with the list extraction of
\* the results, and rejected only when that execute has rejected, with the
\* same error; and when that execute resolves (rejects), the promise is
\* eventually resolved (rejected).
SimpleRunsOneTransaction ==
  simple.called =>
    /\ live = {1}
    /\ statements[1] = <<[statement |-> simple.text, parameters |-> simple.params]>>
    /\ Len(exec[1]) = 1
    /\ Len(InitialPosts(exec[1][1])) <= 1
    /\ simple.state = "resolved" =>
          /\ exec[1][1].state = "resolved"
          /\ simple.value = ExpectedList(exec[1][1].value.msg[1])
    /\ simple.state = "rejected" =>
          /\ exec[1][1].state = "rejected"
          /\ simple.value = exec[1][1].value
SimpleExecuteIs(st) == simple.called /\ exec[1][1].state = st
C14_SimpleTransaction ==
  /\ []SimpleRunsOneTransaction
  /\ SimpleExecuteIs("resolved") ~> (simple.state = "resolved")
  /\ SimpleExecuteIs("rejected") ~> (simple.state = "rejected")

\* a nested statements list was rendered into one statement and the promise
\* resolved with the first column of the rows
C14_Witness ==
  /\ simple.called /\ simple.state = "resolved"
  /\ simple.text = <<"M", " ", "R", " ", "u">>
  /\ simple.value = List(<<"a", "b">>)

\* C15: an exception raised at any step of execute() surfaces as a rejection
\* that wraps the original error: every rejected execution carries an Error
\* constructed around what was thrown.
C15_RejectionWrapsError ==
  \A t \in live : \A e \in Execs(t) :
    exec[t][e].state = "rejected" => exec[t][e].value.cls = "Error"

Started(t, e) == e <= Len(exec[t])
Settled(t, e) == e <= Len(exec[t]) /\ exec[t][e].state # "pending"

\* C16: when the transport answers every awaited request, every execute()
\* eventually settles; an execution whose rollback DELETE is outstanding is
\* settled already, so settlement does not wait for the DELETE's answer.
C16_ExecuteSettles ==
  /\ \A t \in Tx : \A e \in 1..MaxExec : Started(t, e) ~> Settled(t, e)
  /\ [](\A t \in live : \A e \in Execs(t) :
          exec[t][e].del = "sent" => exec[t][e].state = "rejected")

\* one execution is rejected while its DELETE is unanswered, another one
\* has resolved
C16_Witness ==
  \E t \in live : \E e, f \in Execs(t) :
    /\ exec[t][e].state = "rejected" /\ exec[t][e].del = "sent"
    /\ exec[t][f].state = "resolved"

\* the awaited requests of rec (statements POST, commit POST) that have been
\* answered: by a first response, by a commit response, or by a failure of
\* the transport
TransportFailed(rec) ==
  rec.state = "rejected" /\ rec.value = Error(FetchError(<<"request failed">>))
Answered(rec) ==
  (IF rec.res1 # NoResponse THEN 1 ELSE 0)
  + (IF rec.res2 # NoResponse THEN 1 ELSE 0)
  + (IF TransportFailed(rec) THEN 1 ELSE 0)
Outstanding(rec) == Len(InitialPosts(rec)) + Len(CommitPosts(rec)) - Answered(rec)

\* C17: within one execution the commit POST and the rollback DELETE are
\* handed to the transport only after the response to the statements POST
\* has arrived, never both, each at most once, and of the awaited requests
\* (all but the DELETE) at most one is unanswered at any time.
C17_RequestOrdering ==
  \A t \in live : \A e \in Execs(t) :
    LET rec == exec[t][e] IN
      /\ (CommitPosts(rec) # <<>> \/ Deletes(rec) # <<>>) =>
            /\ rec.res1 # NoResponse
            /\ IsInitialPost(rec.requests[1])
      /\ Len(CommitPosts(rec)) + Len(Deletes(rec)) <= 1
      /\ Outstanding(rec) \in {0, 1}

\* one execution has sent its commit POST, which is unanswered, and another
\* its rollback DELETE
C17_Witness ==
  \E t \in live : \E e, f \in Execs(t) :
    /\ CommitPosts(exec[t][e]) # <<>> /\ Outstanding(exec[t][e]) = 1
    /\ Deletes(exec[t][f]) # <<>>

\* C18: the rollback DELETE is fire-and-forget.  Unanswered or answered, the
\* execution that sent it is rejected, once, with the error made from the
\* status text of the first response; the DELETE is its last request.
C18_DeleteFireAndForget ==
  \A t \in live : \A e \in Execs(t) :
    LET rec == exec[t][e] IN
      rec.del # "none" =>
        /\ rec.state = "rejected"
        /\ rec.value = Error(Error(Str(<<statusText(rec.res1.status)>>)))
        /\ rec.rejects = 1 /\ rec.resolves = 0
        /\ Len(rec.requests) = 2
        /\ IsInitialPost(rec.requests[1]) /\ IsDelete(rec.requests[2])
        /\ rec.res2 = NoResponse

\* a rollback DELETE has been answered, another one has not
C18_Witness ==
  \E t \in live : \E e, f \in Execs(t) :
    exec[t][e].del = "answered" /\ exec[t][f].del = "sent"

\* an operation on transaction t, or a step of one of its executions
OnTransaction(t) ==
  \/ \E a \in AddInputs : addQuery(t, a.q, a.params)
  \/ execute(t)
  \/ executeSetUsed(t)
  \/ \E e \in 1..MaxExec : answered(t, e) \/ thenJson(t, e) \/ deleteAnswered(t, e)

\* C19: transactions are independent under every interleaving.  A step of
\* one transaction leaves the statements, the used flag and the executions
\* of every other transaction as they were; the statements POST of an
\* execution carries statements of its own transaction only, and what an
\* execution resolves with is the results of its own first response.
C19_StepsLeaveOthersAlone ==
  \A t \in live :
    OnTransaction(t) =>
      \A u \in live \ {t} :
        /\ statements'[u] = statements[u]
        /\ used'[u] = used[u]
        /\ exec'[u] = exec[u]
C19_OwnStatementsAndResponses ==
  \A t \in live : \A e \in Execs(t) :
    LET rec == exec[t][e] IN
      /\ \A i \in 1..Len(InitialPosts(rec)) :
            LET sent == InitialPosts(rec)[i].body.statements IN
              /\ Len(sent) <= Len(statements[t])
              /\ \A k \in 1..Len(sent) : sent[k] = stringifyStatement(statements[t][k])
      /\ rec.state = "resolved" => rec.value = Results(rec.res1.body.results)
C19_Independent ==
  /\ [][C19_StepsLeaveOthersAlone]_vars
  /\ []C19_OwnStatementsAndResponses

\* two transactions with different statements run interleaved: the commit
\* of one is awaited while the other has been rejected and its rollback
\* DELETE is unanswered
C19_Witness ==
  /\ live = Tx
  /\ statements[1] # <<>> /\ statements[2] # <<>>
  /\ statements[1] # statements[2]
  /\ exec[1] # <<>> /\ exec[2] # <<>>
  /\ exec[1][1].pc = "commit"
  /\ exec[2][1].state = "rejected" /\ exec[2][1].del = "sent"
  /\ used[1] /\ used[2]

\* C20: the errors field is optional.  An execution whose first response is
\* 200 or 201 with a body that has results and commit but no errors field
\* goes on, once the body is read, to the commit POST and is not rejected
\* before the commit is answered.
C20_MissingErrorsIsNoError ==
  \A t \in live : \A e \in Execs(t) :
    LET rec == exec[t][e] IN
      (/\ rec.res1 # NoResponse /\ isOk(rec.res1.status)
       /\ rec.res1.body.parses /\ ~rec.res1.body.hasErrors
       /\ rec.pc # "json") =>
        /\ CommitPosts(rec) # <<>>
        /\ (rec.res2 = NoResponse /\ ~TransportFailed(rec)) => rec.state = "pending"

\* C21: the used flag is monotonic.  It is false when the Transaction is
\* constructed, and no step (addQuery, execute, a response, a failure of the
\* transport, the answer to the DELETE) takes it from true to false.
C21_UsedMonotonic ==
  /\ \A t \in Tx : ~used[t]
  /\ [][\A t \in Tx : used[t] => used'[t]]_vars

\* used is true after an execution has been rejected by a failure of the
\* transport, a second execute() has been answered and an addQuery has
\* failed
C21_Witness ==
  \E t \in live :
    /\ used[t]
    /\ Len(exec[t]) = 2
    /\ TransportFailed(exec[t][1])
    /\ exec[t][2].res1 # NoResponse
    /\ lastOp.op = "addQuery" /\ lastOp.tx = t /\ lastOp.threw

\* execute() on t, or a step of the response handling of one of its
\* executions
ExecuteStep(t) ==
  \/ execute(t)
  \/ executeSetUsed(t)
  \/ \E e \in 1..MaxExec : answered(t, e) \/ thenJson(t, e) \/ deleteAnswered(t, e)

\* C22: the statement list is append-only.  An addQuery call made while used
\* is false puts exactly one entry at the end of the list and leaves the
\* earlier entries and the used flag as they were; the list of a transaction
\* changes in no other step; execute() and every step of its response
\* handling leave all statement lists unchanged.
C22_StatementsAppendOnly ==
  [][\A t \in Tx :
       /\ \A a \in AddInputs :
            (~used[t] /\ exec' = exec /\ addQuery(t, a.q, a.params)) =>
              /\ Len(statements'[t]) = Len(statements[t]) + 1
              /\ SubSeq(statements'[t], 1, Len(statements[t])) = statements[t]
              /\ used' = used
       /\ statements'[t] # statements[t] =>
            /\ ~used[t]
            /\ \E a \in AddInputs : addQuery(t, a.q, a.params)
       /\ statements' # statements => ~ExecuteStep(t)]_vars

\* two different statements are in the list of a transaction whose
\* execution has gone through to the end: one execution has resolved,
\* another has been rejected
C22_Witness ==
  \E t \in live : \E e, f \in Execs(t) :
    /\ Len(statements[t]) = 2 /\ statements[t][1] # statements[t][2]
    /\ exec[t][e].state = "resolved"
    /\ exec[t][f].state = "rejected"

\* C23: the text of a statement is fixed when addQuery is called.  Whatever
\* is added to the query builder afterwards, every entry of a statement list
\* and every statement of a request body that was sent carries the text the
\* builder rendered to at the addQuery call that made the entry.
C23_TextFixedAtAddQuery ==
  \A t \in live :
    /\ Len(statements[t]) = Len(appended[t])
    /\ \A i \in 1..Len(statements[t]) :
         statements[t][i].statement = appended[t][i].text
    /\ \A e \in Execs(t) : \A r \in 1..Len(InitialPosts(exec[t][e])) :
         LET sent == InitialPosts(exec[t][e])[r].body.statements IN
           \A k \in 1..Len(sent) : sent[k].statement = appended[t][k].text

\* fragments were added to the builder after addQuery and again after the
\* statements POST was issued: the builder renders to a longer text now,
\* the list and the request body hold the text of the addQuery call
C23_Witness ==
  \E t \in live :
    /\ Len(statements[t]) = 1 /\ exec[t] # <<>>
    /\ InitialPosts(exec[t][1]) # <<>>
    /\ InitialPosts(exec[t][1])[1].body.statements[1].statement = <<"M">>
    /\ statements[t][1].statement = <<"M">>
    /\ lastCall.op = "add" /\ lastCall.sent
    /\ toString(lastCall.before) # <<"M">>
    /\ toString(q) # toString(lastCall.before)

====
